---- MODULE Spec2Model ----
(***************************************************************************)
(* Model of ceres-dsp: the Builder (slot registry), the Runtime (slot      *)
(* arrays, routing, tick, parameter resolution), the parameter runtime     *)
(* generated by #[parameters], and the Engine's output-stream callback     *)
(* with its event channel.                                                 *)
(*                                                                         *)
(* Three specifications share the variables:                               *)
(*   Spec         construction: registrations on a Builder, then build     *)
(*   SpecEngine   the cpal callback draining the channel and ticking       *)
(*   SpecRuntime  a built Runtime driven through its public operations     *)
(*                                                                         *)
(* f32 values are modelled by the integers (an exact subset of f32) and    *)
(* the distinguished value NaN.  Slots are 0-based as in the source; the   *)
(* Vec at a slot is the sequence element at slot + 1.                      *)
(***************************************************************************)
EXTENDS Integers, Sequences, FiniteSets, TLC

\* ---------------------------------------------------------------- bounds
\* registration calls made on the Builder before build is called
MaxRegs == 2
\* registration calls the root factory makes inside build
MaxFactoryOps == 2
\* events the producer threads push in one behaviour
MaxEvents == 3

\* ------------------------------------------------------ program constants
BUFFER_SIZE == 256
CHUNK == 256

\* ------------------------------------------------- the application's types
\* T of use_state<T>
StateTypes == {"S1", "S2"}
\* T of use_parameters<T>: structs carrying #[parameters]
ParamTypes == {"P1", "P2"}
\* T of use_modulator<T>
ModTypes == {"M1", "M2"}
\* the named f32 fields of each #[parameters] struct
Fields(T) == IF T = "P1" THEN {"cutoff", "resonance"} ELSE {"gain"}
\* component functions a root factory can return
Components == {"c1", "c2"}

\* --------------------------------------------------------------- f32
\* f32::NAN, encoded as an integer outside the range the model's arithmetic reaches
NaN == -1000
\* Option::None of a field's routing
None == [some |-> FALSE]
Some(src, amt) == [some |-> TRUE, source_index |-> src, amount |-> amt]

FMul(a, b) == IF a = NaN \/ b = NaN THEN NaN ELSE a * b
FAdd(a, b) == IF a = NaN \/ b = NaN THEN NaN ELSE a + b
\* f32::clamp(0.0, 1.0): NaN stays NaN
Clamp01(x) == IF x = NaN THEN NaN ELSE IF x < 0 THEN 0 ELSE IF x > 1 THEN 1 ELSE x

\* ------------------------------------------------------- default instances
\* T::default() of a state type, boxed
DefaultState(T) == [ty |-> T, val |-> 0]
\* T::default() of a modulator: a table of one value per sample of the block
DefaultModulator(T) == [ty |-> T, table |-> "zero"]

\* <Name>Runtime::new(): base = T::default() (derived: every field 0.0), no
\* routing, computed_values = [base; BUFFER_SIZE]
RuntimeNew(T) ==
    LET base == [f \in Fields(T) |-> 0]
    IN [ty |-> T,
        base |-> base,
        modulation |-> [f \in Fields(T) |-> None],
        computed_values |-> [i \in 0..(BUFFER_SIZE - 1) |-> base]]

\* Parameters::create_runtime
create_runtime(T) == RuntimeNew(T)

\* ================================================================ Builder
EmptyMap == [x \in {} |-> 0]

\* Builder::new
NewBuilder ==
    [next_state_slot |-> 0, state_builders |-> <<>>, state_map |-> EmptyMap,
     next_modulation_slot |-> 0, modulation_builders |-> <<>>, modulation_map |-> EmptyMap,
     next_source_slot |-> 0, modulation_sources |-> <<>>, source_map |-> EmptyMap]

\* HashMap::insert
MapInsert(m, k, v) == [x \in (DOMAIN m) \cup {k} |-> IF x = k THEN v ELSE m[x]]

StateHandle(T, slot) == [kind |-> "state", ty |-> T, slot |-> slot]
ParameterHandle(T, slot) == [kind |-> "param", ty |-> T, slot |-> slot]
ModulatorHandle(T, slot) == [kind |-> "mod", ty |-> T, slot |-> slot]

\* use_state with a fault seeded: allocates on every call, as use_modulator does
use_state_always_fresh(b, T) ==
    [builder |-> [b EXCEPT !.next_state_slot = @ + 1,
                           !.state_builders = Append(@, T),
                           !.state_map = MapInsert(@, T, b.next_state_slot)],
     handle |-> StateHandle(T, b.next_state_slot)]

\* use_state with a fault seeded: the slot is read after the counter is
\* incremented
use_state_after_increment(b, T) ==
    IF T \in DOMAIN b.state_map
    THEN [builder |-> b, handle |-> StateHandle(T, b.state_map[T])]
    ELSE [builder |-> [b EXCEPT !.next_state_slot = @ + 1,
                                !.state_builders = Append(@, T),
                                !.state_map = MapInsert(@, T, b.next_state_slot + 1)],
          handle |-> StateHandle(T, b.next_state_slot + 1)]

\* Builder::use_state: state_map.entry(type_id).or_insert_with(...)
use_state(b, T) ==
    IF T \in DOMAIN b.state_map
    THEN [builder |-> b, handle |-> StateHandle(T, b.state_map[T])]
    ELSE [builder |-> [b EXCEPT !.next_state_slot = @ + 1,
                                !.state_builders = Append(@, T),
                                !.state_map = MapInsert(@, T, b.next_state_slot)],
          handle |-> StateHandle(T, b.next_state_slot)]

\* use_parameters with a fault seeded: takes its slot from the state slot counter
use_parameters_shared_counter(b, T) ==
    IF T \in DOMAIN b.modulation_map
    THEN [builder |-> b, handle |-> ParameterHandle(T, b.modulation_map[T])]
    ELSE [builder |-> [b EXCEPT !.next_state_slot = @ + 1,
                                !.modulation_builders = Append(@, T),
                                !.modulation_map = MapInsert(@, T, b.next_state_slot)],
          handle |-> ParameterHandle(T, b.next_state_slot)]

\* Builder::use_parameters: modulation_map.entry(type_id).or_insert_with(...)
use_parameters(b, T) ==
    IF T \in DOMAIN b.modulation_map
    THEN [builder |-> b, handle |-> ParameterHandle(T, b.modulation_map[T])]
    ELSE [builder |-> [b EXCEPT !.next_modulation_slot = @ + 1,
                                !.modulation_builders = Append(@, T),
                                !.modulation_map = MapInsert(@, T, b.next_modulation_slot)],
          handle |-> ParameterHandle(T, b.next_modulation_slot)]

\* use_modulator with a fault seeded: deduplicated by type through source_map
use_modulator_dedup(b, T) ==
    IF T \in DOMAIN b.source_map
    THEN [builder |-> b, handle |-> ModulatorHandle(T, b.source_map[T])]
    ELSE [builder |-> [b EXCEPT !.next_source_slot = @ + 1,
                                !.modulation_sources = Append(@, DefaultModulator(T)),
                                !.source_map = MapInsert(@, T, b.next_source_slot)],
          handle |-> ModulatorHandle(T, b.next_source_slot)]

\* Builder::use_modulator: always a new slot and a new instance
use_modulator(b, T) ==
    [builder |-> [b EXCEPT !.next_source_slot = @ + 1,
                           !.modulation_sources = Append(@, DefaultModulator(T)),
                           !.source_map = MapInsert(@, T, b.next_source_slot)],
     handle |-> ModulatorHandle(T, b.next_source_slot)]

\* a registration call: which of the three operations, and its type argument
RegOps ==
    [kind : {"state"}, ty : StateTypes] \cup
    [kind : {"param"}, ty : ParamTypes] \cup
    [kind : {"mod"}, ty : ModTypes]

Register(b, op) ==
    CASE op.kind = "state" -> use_state(b, op.ty)
      [] op.kind = "param" -> use_parameters(b, op.ty)
      [] op.kind = "mod" -> use_modulator(b, op.ty)

\* the root factory f(&mut builder): the registration calls it makes, in order,
\* and the component function it returns
RECURSIVE RunFactory(_, _)
RunFactory(b, ops) ==
    IF ops = <<>> THEN [builder |-> b, handles |-> <<>>]
    ELSE LET r == Register(b, Head(ops))
             rest == RunFactory(r.builder, Tail(ops))
         IN [builder |-> rest.builder, handles |-> <<r.handle>> \o rest.handles]

\* the struct literal of build: every deferred closure is called, in slot order
Materialize(b, component) ==
    [states |-> [i \in 1..Len(b.state_builders) |-> DefaultState(b.state_builders[i])],
     modulation_targets |->
         [i \in 1..Len(b.modulation_builders) |-> create_runtime(b.modulation_builders[i])],
     modulation_sources |-> b.modulation_sources,
     component |-> component]

\* build with a fault seeded: the slots are materialized from the Builder as it was
\* before the factory ran
build_materialize_first(b, f) ==
    LET r == RunFactory(b, f.ops)
    IN [runtime |-> Materialize(b, f.component),
        builder |-> r.builder,
        handles |-> r.handles]

\* Builder::build: component = f(&mut builder), then the Runtime literal
build(b, f) ==
    LET r == RunFactory(b, f.ops)
    IN [runtime |-> Materialize(r.builder, f.component),
        builder |-> r.builder,
        handles |-> r.handles]

\* sequences over S of length at most n
SeqsUpTo(S, n) == UNION {[1..k -> S] : k \in 0..n}

\* the root factories handed to build
Factories == [ops : SeqsUpTo(RegOps, MaxFactoryOps), component : Components]

\* the Runtime fields before build has produced one
NoRuntime ==
    [states |-> <<>>, modulation_targets |-> <<>>, modulation_sources |-> <<>>,
     component |-> "none"]
NoFactory == [ops |-> <<>>, component |-> "none"]

\* ================================================== parameter runtime
\* the per-sample value tables a modulator can hold after update or after a
\* write through get_source_mut
Tables == {"zero", "ramp", "nan"}

\* Modulator::get_value(index)
get_value(m, i) ==
    CASE m.table = "zero" -> 0
      [] m.table = "ramp" -> i
      [] m.table = "nan" -> NaN

\* the amount argument of route
Amounts == {1, -1}
\* the param argument of route
FieldNames == {"cutoff", "resonance", "gain", "bogus"}

\* route_parameter with a fault seeded: a field that already has a routing keeps it
route_parameter_keep_first(prt, param_name, source_index, amount) ==
    IF param_name \in Fields(prt.ty) /\ ~prt.modulation[param_name].some
    THEN [prt EXCEPT !.modulation[param_name] = Some(source_index, amount)]
    ELSE prt

\* route_parameter with a fault seeded: the default arm clears every routing
route_parameter_unknown_clears(prt, param_name, source_index, amount) ==
    IF param_name \in Fields(prt.ty)
    THEN [prt EXCEPT !.modulation[param_name] = Some(source_index, amount)]
    ELSE [prt EXCEPT !.modulation = [f \in Fields(prt.ty) |-> None]]

\* route_parameter with a fault seeded: the routings of the other fields are
\* dropped
route_parameter_resets_others(prt, param_name, source_index, amount) ==
    IF param_name \in Fields(prt.ty)
    THEN [prt EXCEPT !.modulation =
            [f \in Fields(prt.ty) |->
                IF f = param_name THEN Some(source_index, amount) ELSE None]]
    ELSE prt

\* <Name>Runtime::route_parameter: match on the field name, route_<field>
\* stores Some(ModulationRouting { source_index, amount }); _ => {}
route_parameter(prt, param_name, source_index, amount) ==
    IF param_name \in Fields(prt.ty)
    THEN [prt EXCEPT !.modulation[param_name] = Some(source_index, amount)]
    ELSE prt

\* update_field with a fault seeded: the routing's amount is not applied
update_field_no_amount(prt, f, sources, i) ==
    LET routing == prt.modulation[f]
        m == IF routing.some
             THEN get_value(sources[routing.source_index + 1], i)
             ELSE 0
    IN Clamp01(FAdd(prt.base[f], m))

\* update_fields: one field's value at sample i
update_field(prt, f, sources, i) ==
    LET routing == prt.modulation[f]
        m == IF routing.some
             THEN FMul(get_value(sources[routing.source_index + 1], i), routing.amount)
             ELSE 0
    IN Clamp01(FAdd(prt.base[f], m))

\* <Name>Runtime::update: for i in 0..BUFFER_SIZE, every field
update(prt, sources) ==
    [prt EXCEPT !.computed_values =
        [i \in 0..(BUFFER_SIZE - 1) |->
            [f \in Fields(prt.ty) |-> update_field(prt, f, sources, i)]]]

\* Index with a fault seeded: the index is used as it is
index_direct(values, i) ==
    IF i \in DOMAIN values
    THEN [fault |-> FALSE, value |-> values[i]]
    ELSE [fault |-> TRUE, value |-> values[0]]

\* Index<usize> for <Name>Accessor: &self.values[index % BUFFER_SIZE]; an
\* index outside the array panics
index(values, i) ==
    LET k == i % BUFFER_SIZE
    IN IF k \in DOMAIN values
       THEN [fault |-> FALSE, value |-> values[k]]
       ELSE [fault |-> TRUE, value |-> values[0]]

\* ================================================================ Runtime
\* the bounds check of vec[slot]: a slot that is not there panics
InBounds(vec, slot) == slot < Len(vec)

\* route with a fault seeded: the source index is stored one too high
route_one_based(r, source, target, param, amount) ==
    [r EXCEPT !.modulation_targets[target.slot + 1] =
        route_parameter(@, param, source.slot + 1, amount)]

\* Runtime::route
route(r, source, target, param, amount) ==
    [r EXCEPT !.modulation_targets[target.slot + 1] =
        route_parameter(@, param, source.slot, amount)]

\* the index expressions of get_parameters and of the update it calls,
\* modulation_targets[handle.slot] and sources[routing.source_index]: one out
\* of bounds panics
get_parameters_panics(r, handle) ==
    \/ ~InBounds(r.modulation_targets, handle.slot)
    \/ \E f \in Fields(r.modulation_targets[handle.slot + 1].ty) :
        LET routing == r.modulation_targets[handle.slot + 1].modulation[f]
        IN routing.some /\ ~InBounds(r.modulation_sources, routing.source_index)

\* get_parameters with a fault seeded: the accessor is made over computed_values as
\* they are, without update
get_parameters_no_update(r, handle) == r

\* Runtime::get_parameters: update(sources), then the accessor over
\* computed_values
get_parameters(r, handle) ==
    [r EXCEPT !.modulation_targets[handle.slot + 1] = update(@, r.modulation_sources)]

\* a write through the reference get_source_mut returns
get_source_mut_write(r, handle, table) ==
    [r EXCEPT !.modulation_sources[handle.slot + 1].table = table]

\* what a lookup ends in: a panic, or a reference into one of the Runtime's
\* vectors; the Runtime it leaves behind
NoRef == [vec |-> "none", slot |-> 0, mutable |-> FALSE]
Ref(vec, slot, mutable) == [vec |-> vec, slot |-> slot, mutable |-> mutable]
Panics(r) == [panic |-> TRUE, ref |-> NoRef, runtime |-> r]
Returns(r, ref) == [panic |-> FALSE, ref |-> ref, runtime |-> r]

\* get with a fault seeded: the lookup puts the slot back to its default
get_resets(r, handle) ==
    IF ~InBounds(r.states, handle.slot) THEN {Panics(r)}
    ELSE IF r.states[handle.slot + 1].ty # handle.ty THEN {Panics(r)}
    ELSE {Returns([r EXCEPT !.states[handle.slot + 1].val = 0],
                  Ref("states", handle.slot, FALSE))}

\* Runtime::get: states[handle.slot] (bounds-checked), then
\* downcast_ref::<T>().unwrap()
get(r, handle) ==
    IF ~InBounds(r.states, handle.slot) THEN {Panics(r)}
    ELSE IF r.states[handle.slot + 1].ty # handle.ty THEN {Panics(r)}
    ELSE {Returns(r, Ref("states", handle.slot, FALSE))}

\* Runtime::get_mut: states[handle.slot] (bounds-checked), then
\* downcast_mut::<T>().unwrap()
get_mut(r, handle) ==
    IF ~InBounds(r.states, handle.slot) THEN {Panics(r)}
    ELSE IF r.states[handle.slot + 1].ty # handle.ty THEN {Panics(r)}
    ELSE {Returns(r, Ref("states", handle.slot, TRUE))}

\* Runtime::get_source_mut: modulation_sources[handle.slot] (bounds-checked),
\* then an unchecked pointer cast to *mut T. With T other than the stored
\* type the behaviour is undefined: the process may abort, or the caller gets
\* the slot's memory as a T.
get_source_mut(r, handle) ==
    IF ~InBounds(r.modulation_sources, handle.slot) THEN {Panics(r)}
    ELSE IF r.modulation_sources[handle.slot + 1].ty # handle.ty
    THEN {Panics(r), Returns(r, Ref("modulation_sources", handle.slot, TRUE))}
    ELSE {Returns(r, Ref("modulation_sources", handle.slot, TRUE))}

\* the values a component stores in a state object
StateVals == {0, 1}

\* a write through a mutable reference
store(r, ref, v) ==
    IF ref.vec = "states"
    THEN [r EXCEPT !.states[ref.slot + 1].val = v]
    ELSE [r EXCEPT !.modulation_sources[ref.slot + 1].table = v]

\* Modulator::update(sample_rate, events): the modulator recomputes its table
modulator_update(m, sample_rate, events, table) == [m EXCEPT !.table = table]

\* ============================================================ combinators
\* the component functions a combinator is built over: one that copies its
\* input, one that adds 1 to every sample, one that writes nothing
Kinds == {"pass", "inc", "silent"}

\* comp(runtime, inp, out, sample_rate): what the component leaves in out
comp(kind, inp, out) ==
    [i \in 1..Len(out) |->
        IF i > Len(inp) \/ kind = "silent" THEN out[i]
        ELSE IF kind = "pass" THEN inp[i]
        ELSE inp[i] + 1]

\* fill with a fault seeded: the buffer keeps what it held
fill_keeps(buf, v) == buf

\* slice::fill(v)
fill(buf, v) == [i \in 1..Len(buf) |-> v]

\* Vec::resize(n, v)
resize(buf, n, v) == [i \in 1..n |-> IF i <= Len(buf) THEN buf[i] ELSE v]

\* what an invocation of a combinator's closure ends in
Unwound(f, output) == [panic |-> TRUE, fn |-> f, output |-> output, log |-> <<>>]
Returned(f, output, log) == [panic |-> FALSE, fn |-> f, output |-> output, log |-> log]

\* a macro invocation no rule matches
Rejected(macro) == [kind |-> "rejected", macro |-> macro]

\* the closures the macros return, as built
NewSerial(components) ==
    [kind |-> "serial", components |-> components, buffer_a |-> <<>>, buffer_b |-> <<>>]
NewParallel(components) ==
    [kind |-> "parallel", components |-> components, temp_buffers |-> <<>>]

\* serial!: the loop over components.iter_mut().enumerate() from stage i on;
\* a, b are buffer_a, buffer_b
RECURSIVE serial_loop(_, _, _, _, _)
serial_loop(components, i, a, b, log) ==
    IF i = Len(components) THEN [buffer_a |-> a, buffer_b |-> b, log |-> log]
    ELSE LET inp == IF i % 2 = 0 THEN a ELSE b
             out == fill(IF i % 2 = 0 THEN b ELSE a, 0)
             res == comp(components[i + 1], inp, out)
             entry == [comp |-> components[i + 1], inp |-> inp, dest |-> out,
                       wrote |-> res]
         IN IF i % 2 = 0
            THEN serial_loop(components, i + 1, a, res, Append(log, entry))
            ELSE serial_loop(components, i + 1, res, b, Append(log, entry))

\* final_buf with a fault seeded: always buffer_b
final_buf_always_b(f) == f.buffer_b

\* serial!: final_buf
final_buf(f) == IF Len(f.components) % 2 = 1 THEN f.buffer_b ELSE f.buffer_a

\* serial!: the closure's body; copy_from_slice panics when the lengths differ
serial(f, input, output) ==
    IF f.components = <<>>
    THEN IF Len(input) # Len(output) THEN Unwound(f, output)
         ELSE Returned(f, input, <<>>)
    ELSE LET sized == IF Len(f.buffer_a) # Len(output)
                      THEN [f EXCEPT !.buffer_a = resize(@, Len(output), 0),
                                     !.buffer_b = resize(@, Len(output), 0)]
                      ELSE f
         IN IF Len(input) # Len(sized.buffer_a) THEN Unwound(sized, output)
            ELSE LET run == serial_loop(sized.components, 0, input,
                                        sized.buffer_b, <<>>)
                     done == [sized EXCEPT !.buffer_a = run.buffer_a,
                                           !.buffer_b = run.buffer_b]
                 IN Returned(done, final_buf(done), run.log)

\* mix_add with a fault seeded: the weight is left out
mix_add_unweighted(output, buf, weight) ==
    [i \in 1..Len(output) |->
        IF i <= Len(buf) THEN output[i] + buf[i] ELSE output[i]]

\* parallel!: *out += sample * *weight over output.iter_mut().zip(buf.iter())
mix_add(output, buf, weight) ==
    [i \in 1..Len(output) |->
        IF i <= Len(buf) THEN output[i] + buf[i] * weight ELSE output[i]]

\* parallel!: the loop over components zipped with temp_buffers from branch j on
RECURSIVE parallel_loop(_, _, _, _, _, _)
parallel_loop(components, j, temps, input, output, log) ==
    IF j > Len(components) \/ j > Len(temps)
    THEN [temp_buffers |-> temps, output |-> output, log |-> log]
    ELSE LET buf == fill(temps[j], 0)
             res == comp(components[j].comp, input, buf)
             entry == [comp |-> components[j].comp, inp |-> input, dest |-> buf,
                       wrote |-> res]
         IN parallel_loop(components, j + 1, [temps EXCEPT ![j] = res], input,
                          mix_add(output, res, components[j].weight),
                          Append(log, entry))

\* parallel!: the closure's body
parallel(f, input, output) ==
    LET n == Len(f.components)
        made == IF Len(f.temp_buffers) # n
                THEN resize(f.temp_buffers, n, <<>>)
                ELSE f.temp_buffers
        sized == [j \in 1..n |->
                    IF Len(made[j]) # Len(output)
                    THEN resize(made[j], Len(output), 0)
                    ELSE made[j]]
        run == parallel_loop(f.components, 1, sized, input, fill(output, 0), <<>>)
    IN Returned([f EXCEPT !.temp_buffers = run.temp_buffers], run.output, run.log)

\* macro_rules! serial: the one rule takes one expression or more; with no
\* rule matching the expansion fails and no closure is built
serial_macro(args) ==
    IF Len(args) >= 1 THEN NewSerial(args) ELSE Rejected("serial")

\* macro_rules! parallel: the one rule takes one (weight, component) or more
parallel_macro(args) ==
    IF Len(args) >= 1 THEN NewParallel(args) ELSE Rejected("parallel")

\* no combinator built, no invocation yet
NoComb == [kind |-> "none"]
NoCall == [op |-> "none"]

\* ================================================================= Engine
\* the threads that hold a clone of Engine::tx
Producers == {"p1", "p2"}

\* try_recv with a fault seeded: the event is read and stays queued
try_recv_peek(q) ==
    IF q = <<>> THEN [events |-> <<>>, rest |-> q]
    ELSE [events |-> <<Head(q)>>, rest |-> q]

\* rx.try_recv(): the oldest queued event, if any, leaves the channel
try_recv(q) ==
    IF q = <<>> THEN [events |-> <<>>, rest |-> q]
    ELSE [events |-> <<Head(q)>>, rest |-> Tail(q)]

\* EventBus::try_recv_all (no caller in the crate): try_recv until it fails
try_recv_all(q) == [events |-> q, rest |-> <<>>]

\* tx.send(event) on the unbounded channel
send(q, event) == Append(q, event)

\* data.len() of the output stream callback
DataLens == {0, 100, 256, 300, 600}
\* config.sample_rate()
SampleRates == {44100, 48000}

\* input.chunks(256) / data.chunks_mut(256): chunk k of a buffer of length len
Chunk(buf, len, k) ==
    [buf |-> buf, off |-> k * CHUNK,
     len |-> IF len - k * CHUNK < CHUNK THEN len - k * CHUNK ELSE CHUNK]
\* the chunk count with a fault seeded: a shorter last chunk is dropped
NumChunks_floor(len) == len \div CHUNK

\* the number of chunks input.chunks(256) / data.chunks_mut(256) yield
NumChunks(len) == (len + CHUNK - 1) \div CHUNK

NoBuf == [buf |-> "none", off |-> 0, len |-> 0]
NoTick == [sample_rate |-> 0, events |-> <<>>, input |-> NoBuf, output |-> NoBuf]
NoCallback == [active |-> FALSE, len |-> 0, chunk |-> 0, ticks |-> <<>>]
NoOp == [op |-> "none", slot |-> 0, changed |-> FALSE]

VARIABLES
    phase,        \* "building": a Builder exists; "built": build has returned
    builder,      \* the Builder
    handles,      \* every handle the Builder has issued, in call order
    preHandles,   \* how many of them were issued before build was called
    factory,      \* the root factory build was called with
    rt,           \* the Runtime
    queue,        \* the events in the channel
    sent,         \* every event sent, in the channel's arrival order
    delivered,    \* every event handed to tick, in order
    sample_rate,  \* the stream's sample rate
    cb,           \* the running output callback: data.len() and the chunk index
    pc,           \* "idle", "chunks" (callback loop), "update", "component" (inside tick)
    tick,         \* the arguments of the running (or last) tick
    modIdx,       \* tick's position in sources.iter_mut()
    queuedAtStart,\* the channel's content when the running (or last) tick began
    updLog,       \* the update calls of the running (or last) tick, in order
    compLog,      \* the component invocations of the running (or last) tick
    lastOp,       \* the Runtime operation that ran last
    lastRoute,    \* per parameter slot and field: the latest route call naming it
    rerouted,     \* per parameter slot and field: that call replaced another routing
    fetched,      \* the parameter slots get_parameters has been called for
    panicked,     \* a panic has unwound the calling thread
    held,         \* the reference into the Runtime the caller holds
    comb,         \* the closure a combinator macro has built
    call,         \* the closure's last invocation
    stored        \* what was last written to each state slot, and whether a
                  \* tick was entered since; likewise since the last route

bvars == <<phase, builder, handles, preHandles, factory>>
evars == <<queue, sent, delivered, sample_rate, cb, queuedAtStart>>
tvars == <<pc, tick, modIdx, updLog, compLog>>
cvars == <<comb, call>>
xvars == <<panicked, held, cvars, stored>>
vars == <<phase, builder, handles, preHandles, factory, rt, queue, sent, delivered,
          sample_rate, cb, pc, tick, modIdx, queuedAtStart, updLog, compLog, lastOp,
          lastRoute, rerouted, fetched, panicked, held, comb, call, stored>>

\* the engine and tick variables before any callback or tick
Quiet ==
    /\ queue = <<>>
    /\ sent = <<>>
    /\ delivered = <<>>
    /\ cb = NoCallback
    /\ pc = "idle"
    /\ tick = NoTick
    /\ modIdx = 0
    /\ queuedAtStart = <<>>
    /\ updLog = <<>>
    /\ compLog = <<>>
    /\ lastOp = NoOp
    /\ fetched = {}
    /\ panicked = FALSE
    /\ held = NoRef

\* nothing written to a state slot, nothing routed, no tick entered
NoneStored(r) ==
    [vals |-> [n \in 1..Len(r.states) |->
                [written |-> FALSE, val |-> r.states[n].val, ticked |-> FALSE]],
     routeTicked |-> FALSE]

\* a tick is entered
TickEntered(st) ==
    [vals |-> [n \in DOMAIN st.vals |-> [st.vals[n] EXCEPT !.ticked = TRUE]],
     routeTicked |-> TRUE]

\* no combinator closure is in play
Uncombined ==
    /\ comb = NoComb
    /\ call = NoCall

NoRoutes(r) ==
    [s \in 1..Len(r.modulation_targets) |->
        [f \in Fields(r.modulation_targets[s].ty) |-> None]]
NoneRerouted(r) ==
    [s \in 1..Len(r.modulation_targets) |->
        [f \in Fields(r.modulation_targets[s].ty) |-> FALSE]]

\* ============================================================ construction
\* ceres::new()
Init ==
    /\ phase = "building"
    /\ builder = NewBuilder
    /\ handles = <<>>
    /\ preHandles = 0
    /\ factory = NoFactory
    /\ rt = NoRuntime
    /\ sample_rate = 0
    /\ lastRoute = <<>>
    /\ rerouted = <<>>
    /\ stored = NoneStored(NoRuntime)
    /\ Quiet
    /\ Uncombined

\* a registration call made on the Builder before build
RegisterCall(op) ==
    /\ phase = "building"
    /\ Len(handles) < MaxRegs
    /\ LET r == Register(builder, op)
       IN /\ builder' = r.builder
          /\ handles' = Append(handles, r.handle)
    /\ preHandles' = preHandles + 1
    /\ UNCHANGED <<phase, factory, rt, evars, tvars, lastOp, lastRoute, rerouted, fetched, xvars>>

UseState == \E T \in StateTypes : RegisterCall([kind |-> "state", ty |-> T])
UseParameters == \E T \in ParamTypes : RegisterCall([kind |-> "param", ty |-> T])
UseModulator == \E T \in ModTypes : RegisterCall([kind |-> "mod", ty |-> T])

\* builder.build(f): consumes the Builder
Build ==
    /\ phase = "building"
    /\ \E f \in Factories :
        LET r == build(builder, f)
        IN /\ rt' = r.runtime
           /\ builder' = r.builder
           /\ handles' = handles \o r.handles
           /\ factory' = f
           /\ lastRoute' = NoRoutes(r.runtime)
           /\ rerouted' = NoneRerouted(r.runtime)
           /\ stored' = NoneStored(r.runtime)
    /\ phase' = "built"
    /\ UNCHANGED <<preHandles, evars, tvars, lastOp, fetched, panicked, held, cvars>>

Next == UseState \/ UseParameters \/ UseModulator \/ Build

Spec == Init /\ [][Next]_vars

\* a Runtime constructed by build from a fresh Builder and factory f
Constructed(f) ==
    LET r == build(NewBuilder, f)
    IN /\ phase = "built"
       /\ builder = r.builder
       /\ handles = r.handles
       /\ preHandles = 0
       /\ factory = f
       /\ rt = r.runtime
       /\ lastRoute = NoRoutes(r.runtime)
       /\ rerouted = NoneRerouted(r.runtime)
       /\ stored = NoneStored(r.runtime)

\* =================================================================== tick
\* Runtime::tick, one iteration of sources.iter_mut(): modulator.update
TickUpdate ==
    /\ pc = "update"
    /\ modIdx < Len(rt.modulation_sources)
    /\ \E table \in Tables :
        rt' = [rt EXCEPT !.modulation_sources[modIdx + 1] =
                  modulator_update(@, tick.sample_rate, tick.events, table)]
    /\ updLog' = Append(updLog, [slot |-> modIdx, sample_rate |-> tick.sample_rate,
                                 events |-> tick.events])
    /\ modIdx' = modIdx + 1
    /\ lastOp' = [op |-> "update", slot |-> modIdx, changed |-> FALSE]
    /\ UNCHANGED <<bvars, evars, pc, tick, compLog, lastRoute, rerouted, fetched, xvars>>

\* TickComponent with a fault seeded: the component is invoked once the first
\* modulator has been updated
TickComponent_early ==
    /\ pc = "update"
    /\ modIdx >= 1 \/ Len(rt.modulation_sources) = 0
    /\ pc' = "component"
    /\ compLog' = Append(compLog, [component |-> rt.component, input |-> tick.input,
                                   output |-> tick.output,
                                   sample_rate |-> tick.sample_rate])
    /\ lastOp' = [op |-> "component", slot |-> 0, changed |-> FALSE]
    /\ UNCHANGED <<bvars, evars, rt, tick, modIdx, updLog, lastRoute, rerouted, fetched, xvars>>

\* Runtime::tick after the loop: component(self, input, output, sample_rate)
TickComponent ==
    /\ pc = "update"
    /\ modIdx = Len(rt.modulation_sources)
    /\ pc' = "component"
    /\ compLog' = Append(compLog, [component |-> rt.component, input |-> tick.input,
                                   output |-> tick.output,
                                   sample_rate |-> tick.sample_rate])
    /\ lastOp' = [op |-> "component", slot |-> 0, changed |-> FALSE]
    /\ UNCHANGED <<bvars, evars, rt, tick, modIdx, updLog, lastRoute, rerouted, fetched, xvars>>

\* the component function returns, and tick with it
ComponentReturn ==
    /\ pc = "component"
    /\ pc' = IF cb.active THEN "chunks" ELSE "idle"
    /\ cb' = IF cb.active THEN [cb EXCEPT !.chunk = @ + 1] ELSE cb
    /\ lastOp' = [op |-> "tick", slot |-> 0, changed |-> FALSE]
    /\ UNCHANGED <<bvars, rt, queue, sent, delivered, sample_rate, queuedAtStart,
                   tick, modIdx, updLog, compLog, lastRoute, rerouted, fetched, xvars>>

\* ================================================================= engine
\* factories of the Runtime an Engine is given
EngineSetups ==
    {[ops |-> o, component |-> "c1"] :
        o \in {<<>>,
               <<[kind |-> "mod", ty |-> "M1"]>>,
               <<[kind |-> "mod", ty |-> "M1"], [kind |-> "mod", ty |-> "M2"]>>}}

\* Engine::new: the channel, the stream configuration, runtime = f(builder)
InitEngine ==
    /\ \E f \in EngineSetups : Constructed(f)
    /\ sample_rate \in SampleRates
    /\ Quiet
    /\ Uncombined

\* a producer thread: tx.send(event)
Send(p) ==
    /\ Len(sent) < MaxEvents
    /\ LET event == [producer |-> p,
                     seq |-> Cardinality({i \in DOMAIN sent : sent[i].producer = p}) + 1]
       IN /\ queue' = send(queue, event)
          /\ sent' = Append(sent, event)
    /\ UNCHANGED <<bvars, rt, delivered, sample_rate, cb, queuedAtStart, tvars, lastOp,
                   lastRoute, rerouted, fetched, xvars>>

\* the output callback is entered with a buffer of data.len() samples
CallbackBegin ==
    /\ pc = "idle"
    /\ \E len \in DataLens : cb' = [active |-> TRUE, len |-> len, chunk |-> 0, ticks |-> <<>>]
    /\ pc' = "chunks"
    /\ UNCHANGED <<bvars, rt, queue, sent, delivered, sample_rate, queuedAtStart, tick,
                   modIdx, updLog, compLog, lastOp, lastRoute, rerouted, fetched, xvars>>

\* one iteration of the chunk loop: rx.try_recv(), then runtime.tick is entered
\* with Some(event) or None
ChunkTick ==
    /\ pc = "chunks"
    /\ cb.chunk < NumChunks(cb.len)
    /\ LET r == try_recv(queue)
       IN /\ queue' = r.rest
          /\ delivered' = delivered \o r.events
          /\ tick' = [sample_rate |-> sample_rate, events |-> r.events,
                      input |-> Chunk("input", cb.len, cb.chunk),
                      output |-> Chunk("data", cb.len, cb.chunk)]
    /\ cb' = [cb EXCEPT !.ticks =
                Append(@, [input |-> Chunk("input", cb.len, cb.chunk),
                           output |-> Chunk("data", cb.len, cb.chunk)])]
    /\ queuedAtStart' = queue
    /\ pc' = "update"
    /\ modIdx' = 0
    /\ updLog' = <<>>
    /\ compLog' = <<>>
    /\ stored' = TickEntered(stored)
    /\ UNCHANGED <<bvars, rt, sent, sample_rate, lastOp, lastRoute, rerouted, fetched,
                   panicked, held, cvars>>

\* the chunk loop is exhausted and the callback returns
CallbackEnd ==
    /\ pc = "chunks"
    /\ cb.chunk >= NumChunks(cb.len)
    /\ cb' = [cb EXCEPT !.active = FALSE]
    /\ pc' = "idle"
    /\ UNCHANGED <<bvars, rt, queue, sent, delivered, sample_rate, queuedAtStart, tick,
                   modIdx, updLog, compLog, lastOp, lastRoute, rerouted, fetched, xvars>>

NextEngine ==
    \/ \E p \in Producers : Send(p)
    \/ CallbackBegin
    \/ ChunkTick
    \/ TickUpdate
    \/ TickComponent
    \/ ComponentReturn
    \/ CallbackEnd

SpecEngine == InitEngine /\ [][NextEngine]_vars

\* ================================================================ runtime
\* factories of the Runtime driven directly
RuntimeSetups ==
    {[ops |-> o, component |-> "c1"] :
        o \in {<<[kind |-> "param", ty |-> "P2"], [kind |-> "mod", ty |-> "M1"],
                 [kind |-> "mod", ty |-> "M1"]>>,
               <<[kind |-> "mod", ty |-> "M2"], [kind |-> "param", ty |-> "P1"]>>}}

\* the event slices a direct caller passes to tick
EventBatches == {<<>>, <<[producer |-> "p1", seq |-> 1]>>}

HandlesOf(kind) == {handles[i] : i \in {j \in DOMAIN handles : handles[j].kind = kind}}

\* a Runtime built from a fresh Builder, not yet ticked
InitRuntime ==
    /\ \E f \in RuntimeSetups : Constructed(f)
    /\ sample_rate \in SampleRates
    /\ Quiet
    /\ Uncombined

\* the owner, or the running component function, may call the Runtime
CanCall == pc \in {"idle", "component"} /\ ~panicked /\ held = NoRef

\* TickCall with a fault seeded: entering tick puts every state slot back to
\* its default
TickCall_resets_states ==
    /\ pc = "idle"
    /\ \E events \in EventBatches :
        tick' = [sample_rate |-> sample_rate, events |-> events,
                 input |-> [buf |-> "input", off |-> 0, len |-> BUFFER_SIZE],
                 output |-> [buf |-> "output", off |-> 0, len |-> BUFFER_SIZE]]
    /\ pc' = "update"
    /\ modIdx' = 0
    /\ updLog' = <<>>
    /\ compLog' = <<>>
    /\ stored' = TickEntered(stored)
    /\ rt' = [rt EXCEPT !.states =
                [n \in DOMAIN rt.states |-> DefaultState(rt.states[n].ty)]]
    /\ UNCHANGED <<bvars, evars, lastOp, lastRoute, rerouted, fetched, panicked,
                   held, cvars>>

\* runtime.tick(sample_rate, events, input, output) is entered
TickCall ==
    /\ pc = "idle"
    /\ \E events \in EventBatches :
        tick' = [sample_rate |-> sample_rate, events |-> events,
                 input |-> [buf |-> "input", off |-> 0, len |-> BUFFER_SIZE],
                 output |-> [buf |-> "output", off |-> 0, len |-> BUFFER_SIZE]]
    /\ pc' = "update"
    /\ modIdx' = 0
    /\ updLog' = <<>>
    /\ compLog' = <<>>
    /\ stored' = TickEntered(stored)
    /\ UNCHANGED <<bvars, evars, rt, lastOp, lastRoute, rerouted, fetched, panicked,
                   held, cvars>>

\* runtime.route(source, target, param, amount): the index into
\* modulation_targets panics when the slot is not there
RouteCall(source, target, param, amount) ==
    /\ CanCall
    /\ IF ~InBounds(rt.modulation_targets, target.slot)
       THEN /\ panicked' = TRUE
            /\ lastOp' = [op |-> "route", slot |-> target.slot, changed |-> FALSE,
                          param |-> param]
            /\ UNCHANGED <<rt, lastRoute, rerouted, held>>
       ELSE LET known == param \in Fields(rt.modulation_targets[target.slot + 1].ty)
            IN /\ rt' = route(rt, source, target, param, amount)
               /\ lastRoute' =
                   IF known
                   THEN [lastRoute EXCEPT ![target.slot + 1][param] =
                            Some(source.slot, amount)]
                   ELSE lastRoute
               /\ rerouted' =
                   IF known
                   THEN [rerouted EXCEPT ![target.slot + 1][param] =
                            LET old == lastRoute[target.slot + 1][param]
                            IN old.some /\ old # Some(source.slot, amount)]
                   ELSE rerouted
               /\ lastOp' = [op |-> IF known THEN "route" ELSE "route_unknown",
                             slot |-> target.slot, changed |-> FALSE,
                             param |-> param]
               /\ UNCHANGED <<panicked, held>>
    /\ UNCHANGED <<bvars, evars, tvars, fetched, cvars>>

\* route with handles of the Builder that built the Runtime
Route ==
    \E source \in HandlesOf("mod"), target \in HandlesOf("param"),
       param \in FieldNames, amount \in Amounts :
        RouteCall(source, target, param, amount) /\ UNCHANGED stored

\* runtime.get_parameters(&handle)
GetParameters ==
    /\ CanCall
    /\ \E handle \in HandlesOf("param") :
        IF get_parameters_panics(rt, handle)
        THEN /\ panicked' = TRUE
             /\ lastOp' = [op |-> "get_parameters", slot |-> handle.slot,
                           changed |-> FALSE]
             /\ UNCHANGED <<rt, fetched>>
        ELSE /\ rt' = get_parameters(rt, handle)
             /\ lastOp' = [op |-> "get_parameters", slot |-> handle.slot,
                           changed |-> handle.slot \in fetched /\ rt' # rt]
             /\ fetched' = fetched \cup {handle.slot}
             /\ UNCHANGED panicked
    /\ UNCHANGED <<bvars, evars, tvars, lastRoute, rerouted, held, cvars, stored>>

\* a write through runtime.get_source_mut(&handle)
GetSourceMut ==
    /\ CanCall
    /\ \E handle \in HandlesOf("mod"), table \in Tables :
        /\ rt' = get_source_mut_write(rt, handle, table)
        /\ lastOp' = [op |-> "get_source_mut", slot |-> handle.slot, changed |-> FALSE]
    /\ UNCHANGED <<bvars, evars, tvars, lastRoute, rerouted, fetched, xvars>>

NextRuntime ==
    \/ TickCall
    \/ TickUpdate
    \/ TickComponent
    \/ ComponentReturn
    \/ Route
    \/ GetParameters
    \/ GetSourceMut

SpecRuntime == InitRuntime /\ [][NextRuntime]_vars

\* ================================================================ handles
\* factories of the Runtime whose lookups are driven with any handle
HandleSetups ==
    {[ops |-> o, component |-> "c1"] :
        o \in {<<[kind |-> "state", ty |-> "S1"], [kind |-> "mod", ty |-> "M1"],
                 [kind |-> "param", ty |-> "P2"]>>,
               <<[kind |-> "state", ty |-> "S2"], [kind |-> "state", ty |-> "S1"],
                 [kind |-> "mod", ty |-> "M2"]>>}}

\* the handles another Builder can issue: any registered type at any slot
MaxSlot == 2
ForeignHandles(kind) ==
    CASE kind = "state" -> {StateHandle(T, n) : T \in StateTypes, n \in 0..MaxSlot}
      [] kind = "mod" -> {ModulatorHandle(T, n) : T \in ModTypes, n \in 0..MaxSlot}
      [] OTHER -> {ParameterHandle(T, n) : T \in ParamTypes, n \in 0..MaxSlot}

\* the handles a caller can pass: this Runtime's Builder's, or another's
HandleArgs(kind) ==
    {[handle |-> h, foreign |-> FALSE] : h \in HandlesOf(kind)}
        \cup {[handle |-> h, foreign |-> TRUE] : h \in ForeignHandles(kind)}

\* the slot's stored type is not the handle's T
Mismatch(vec, handle) ==
    InBounds(vec, handle.slot) /\ vec[handle.slot + 1].ty # handle.ty

InitHandles ==
    /\ \E f \in HandleSetups : Constructed(f)
    /\ sample_rate \in SampleRates
    /\ Quiet
    /\ Uncombined

\* a lookup has ended in outcome o
Looked(name, arg, vec, o) ==
    /\ rt' = o.runtime
    /\ panicked' = o.panic
    /\ held' = o.ref
    /\ lastOp' = [op |-> name, slot |-> arg.handle.slot, changed |-> FALSE,
                  foreign |-> arg.foreign, mismatch |-> Mismatch(vec, arg.handle)]
    /\ UNCHANGED <<bvars, evars, tvars, lastRoute, rerouted, fetched, cvars, stored>>

\* runtime.get(&handle)
Get ==
    /\ CanCall
    /\ \E arg \in HandleArgs("state") : \E o \in get(rt, arg.handle) :
        Looked("get", arg, rt.states, o)

\* runtime.get_mut(&handle)
GetMut ==
    /\ CanCall
    /\ \E arg \in HandleArgs("state") : \E o \in get_mut(rt, arg.handle) :
        Looked("get_mut", arg, rt.states, o)

\* runtime.get_source_mut(&handle)
GetSourceMutRef ==
    /\ CanCall
    /\ \E arg \in HandleArgs("mod") : \E o \in get_source_mut(rt, arg.handle) :
        Looked("get_source_mut", arg, rt.modulation_sources, o)

\* the caller writes through the mutable reference it holds
WriteRef ==
    /\ held.mutable
    /\ \E v \in IF held.vec = "states" THEN StateVals ELSE Tables :
        rt' = store(rt, held, v)
    /\ stored' = IF held.vec = "states"
                  THEN [stored EXCEPT !.vals[held.slot + 1] =
                            [written |-> TRUE, val |-> rt'.states[held.slot + 1].val,
                             ticked |-> FALSE]]
                  ELSE stored
    /\ lastOp' = [op |-> "write", slot |-> held.slot, changed |-> rt' # rt]
    /\ UNCHANGED <<bvars, evars, tvars, lastRoute, rerouted, fetched, panicked, held, cvars>>

\* the reference goes out of scope
DropRef ==
    /\ held # NoRef
    /\ held' = NoRef
    /\ lastOp' = [op |-> "drop", slot |-> held.slot, changed |-> FALSE]
    /\ UNCHANGED <<bvars, evars, tvars, rt, lastRoute, rerouted, fetched, panicked, cvars, stored>>

\* route with a target handle of any Builder
RouteAny ==
    \E source \in HandlesOf("mod"), arg \in HandleArgs("param"),
       param \in FieldNames, amount \in Amounts :
        RouteCall(source, arg.handle, param, amount) /\ UNCHANGED stored

NextHandles ==
    \/ Get
    \/ GetMut
    \/ GetSourceMutRef
    \/ WriteRef
    \/ DropRef
    \/ RouteAny

SpecHandles == InitHandles /\ [][NextHandles]_vars

\* ============================================================ combinators
MaxLen == 2
MaxChain == 3
MaxBranches == 2

\* the samples of an input buffer, and what an output buffer holds before a
\* call: samples of an earlier block
Samples == {1, 2}
Stale == {7}
\* the (weight, component) pairs of a mix
Branches ==
    {[weight |-> 1, comp |-> "pass"], [weight |-> 2, comp |-> "pass"],
     [weight |-> 2, comp |-> "inc"], [weight |-> 1, comp |-> "silent"]}

InputBufs == UNION {[1..n -> Samples] : n \in 0..MaxLen}
OutputBufs == {[i \in 1..n |-> v] : n \in 0..MaxLen, v \in Stale}

\* the argument lists a caller writes: serial!(c1, ..., cn) and
\* parallel!((w1, c1), ..., (wn, cn))
ChainArgs == UNION {[1..n -> Kinds] : n \in 0..MaxChain}
MixArgs ==
    UNION {[1..n -> Branches] : n \in 0..MaxBranches}

\* no macro has been expanded, no closure built
InitComb ==
    /\ Constructed([ops |-> <<>>, component |-> "c1"])
    /\ sample_rate = 44100
    /\ Quiet
    /\ Uncombined

\* serial!(args) is expanded and its factory called
SerialMacro ==
    /\ comb = NoComb
    /\ \E args \in ChainArgs : comb' = serial_macro(args)
    /\ UNCHANGED <<bvars, evars, tvars, rt, lastOp, lastRoute, rerouted, fetched,
                   panicked, held, call, stored>>

\* parallel!(args) is expanded and its factory called
ParallelMacro ==
    /\ comb = NoComb
    /\ \E args \in MixArgs : comb' = parallel_macro(args)
    /\ UNCHANGED <<bvars, evars, tvars, rt, lastOp, lastRoute, rerouted, fetched,
                   panicked, held, call, stored>>

\* the closure has been invoked and has ended in r
Invoked(name, input, output, r) ==
    /\ comb' = r.fn
    /\ panicked' = r.panic
    /\ call' = [op |-> name, input |-> input, before |-> output,
                output |-> r.output, log |-> r.log, panic |-> r.panic,
                again |-> call # NoCall]
    /\ UNCHANGED <<bvars, evars, tvars, rt, lastOp, lastRoute, rerouted, fetched, held, stored>>

\* the closure serial! returned is called
SerialCall ==
    /\ comb.kind = "serial"
    /\ ~panicked
    /\ \E input \in InputBufs, output \in OutputBufs :
        \E r \in {serial(comb, input, output)} :
            Invoked("serial", input, output, r)

\* the closure parallel! returned is called
ParallelCall ==
    /\ comb.kind = "parallel"
    /\ ~panicked
    /\ \E input \in InputBufs, output \in OutputBufs :
        \E r \in {parallel(comb, input, output)} :
            Invoked("parallel", input, output, r)

NextComb ==
    \/ SerialMacro
    \/ ParallelMacro
    \/ SerialCall
    \/ ParallelCall

SpecComb == InitComb /\ [][NextComb]_vars

\* =============================================================== accessor
\* the usize indices a component reads the accessor at
Indices ==
    {0, 1, BUFFER_SIZE - 1, BUFFER_SIZE, BUFFER_SIZE + 1, 2 * BUFFER_SIZE - 1,
     2 * BUFFER_SIZE, 2 * BUFFER_SIZE + 1}

\* accessor[i], on the accessor the last get_parameters returned
AccessorIndex ==
    /\ CanCall
    /\ lastOp.op \in {"get_parameters", "index"}
    /\ \E i \in Indices :
        LET read == index(rt.modulation_targets[lastOp.slot + 1].computed_values, i)
        IN /\ lastOp' = [op |-> "index", slot |-> lastOp.slot, changed |-> FALSE,
                         index |-> i, fault |-> read.fault, value |-> read.value]
           /\ panicked' = read.fault
    /\ UNCHANGED <<bvars, evars, tvars, rt, lastRoute, rerouted, fetched, held, cvars, stored>>

NextAccessor ==
    \/ Route
    \/ GetSourceMut
    \/ GetParameters
    \/ AccessorIndex

SpecAccessor == InitRuntime /\ [][NextAccessor]_vars

\* ================================================================ routing
\* a factory that registers a state, a modulator and two parameter sets
RouteSetups ==
    {[ops |-> <<[kind |-> "state", ty |-> "S1"], [kind |-> "mod", ty |-> "M1"],
                [kind |-> "param", ty |-> "P1"], [kind |-> "param", ty |-> "P2"]>>,
      component |-> "c1"]}

InitRoute ==
    /\ \E f \in RouteSetups : Constructed(f)
    /\ sample_rate = 44100
    /\ Quiet
    /\ Uncombined

\* runtime.get_mut(&handle) with a handle of the Runtime's Builder
GetMutOwn ==
    /\ CanCall
    /\ \E h \in HandlesOf("state") : \E o \in get_mut(rt, h) :
        Looked("get_mut", [handle |-> h, foreign |-> FALSE], rt.states, o)

NextRoute ==
    \/ Route
    \/ GetSourceMut
    \/ GetMutOwn
    \/ WriteRef
    \/ DropRef

SpecRoute == InitRoute /\ [][NextRoute]_vars

\* ============================================================ persistence
\* a factory that registers a state, a modulator and a parameter set
PersistSetups ==
    {[ops |-> <<[kind |-> "state", ty |-> "S1"], [kind |-> "mod", ty |-> "M1"],
                [kind |-> "param", ty |-> "P2"]>>,
      component |-> "c1"]}

InitPersist ==
    /\ \E f \in PersistSetups : Constructed(f)
    /\ sample_rate = 44100
    /\ Quiet
    /\ Uncombined

\* runtime.get(&handle) with a handle of the Runtime's Builder
GetOwn ==
    /\ CanCall
    /\ \E h \in HandlesOf("state") : \E o \in get(rt, h) :
        Looked("get", [handle |-> h, foreign |-> FALSE], rt.states, o)

\* route with handles of the Runtime's Builder; no tick entered since
RouteTracked ==
    \E source \in HandlesOf("mod"), target \in HandlesOf("param"),
       param \in FieldNames, amount \in Amounts :
        /\ RouteCall(source, target, param, amount)
        /\ stored' = [stored EXCEPT !.routeTicked = FALSE]

NextPersist ==
    \/ TickCall
    \/ TickUpdate
    \/ TickComponent
    \/ ComponentReturn
    \/ RouteTracked
    \/ GetOwn
    \/ GetMutOwn
    \/ WriteRef
    \/ DropRef

SpecPersist == InitPersist /\ [][NextPersist]_vars

\* ================================================================= claims
InTick == pc \in {"update", "component"}
Ticked == tick # NoTick
NumSources == Len(rt.modulation_sources)

\* C1: every event that is in the channel when a tick starts is in the batch
\* that tick hands to the modulators (the channel is drained to empty by each
\* tick), whatever the interleaving of pushes and ticks.
C1_DrainedEachTick ==
    InTick => tick.events = try_recv_all(queuedAtStart).events

\* C2: with several producers pushing while the callback ticks, every event
\* sent is either still queued or was handed to exactly one tick, and the
\* events handed to ticks followed by the queued ones are the events in
\* arrival order: none dropped, none delivered twice, none reordered (in
\* particular the events of one producer keep their order).
C2_ExactlyOnceFifo ==
    /\ delivered \o queue = sent
    /\ \A i, j \in DOMAIN delivered :
        i < j => /\ delivered[i] # delivered[j]
                 /\ delivered[i].producer = delivered[j].producer
                        => delivered[i].seq < delivered[j].seq
    /\ InTick => /\ Len(tick.events) <= Len(delivered)
                 /\ tick.events = SubSeq(delivered,
                                         Len(delivered) - Len(tick.events) + 1,
                                         Len(delivered))

\* both producers have had events handed to ticks, over at least two ticks,
\* while another event is still queued
C2_Witness ==
    /\ Len(delivered) >= 2
    /\ delivered[1].producer # delivered[2].producer
    /\ queue # <<>>
    /\ InTick

\* the update calls a tick has made once it has updated the first n modulators
ExpectedUpdates(n) ==
    [k \in 1..n |-> [slot |-> k - 1, sample_rate |-> tick.sample_rate,
                     events |-> tick.events]]

\* C3: in a tick the modulators are updated once each, in slot order, all with
\* the tick's sample rate and event batch; the root component is not invoked
\* before the last of them has been updated, and is invoked exactly once, with
\* the tick's input, output and sample rate.
C3_TickOrdering ==
    /\ pc = "update" =>
        /\ modIdx <= NumSources
        /\ updLog = ExpectedUpdates(modIdx)
        /\ compLog = <<>>
    /\ (pc = "component" \/ (pc \in {"idle", "chunks"} /\ Ticked)) =>
        /\ updLog = ExpectedUpdates(NumSources)
        /\ compLog = <<[component |-> rt.component, input |-> tick.input,
                        output |-> tick.output, sample_rate |-> tick.sample_rate]>>

\* the component is running in a tick that carried an event to two modulators
C3_Witness ==
    /\ pc = "component"
    /\ NumSources = 2
    /\ Len(updLog) = 2
    /\ tick.events # <<>>
    /\ Len(compLog) = 1

\* the handles of one kind, by position in the call order
Calls(kind) == {i \in DOMAIN handles : handles[i].kind = kind}
TypesUsed(kind) == {handles[i].ty : i \in Calls(kind)}

\* C4: all use_state calls for one type return the same slot, before build and
\* inside the factory alike, and only the first call for a type allocates: the
\* slot counter and the number of deferred state factories both equal the
\* number of distinct state types registered.
C4_StateIdempotent ==
    /\ \A i, j \in Calls("state") :
        handles[i].ty = handles[j].ty => handles[i].slot = handles[j].slot
    /\ builder.next_state_slot = Cardinality(TypesUsed("state"))
    /\ Len(builder.state_builders) = Cardinality(TypesUsed("state"))

\* one state type was registered before build and again inside the factory,
\* and another state type as well
C4_Witness ==
    /\ phase = "built"
    /\ \E i, j \in Calls("state") :
        /\ i <= preHandles
        /\ j > preHandles
        /\ handles[i].ty = handles[j].ty
    /\ Cardinality(TypesUsed("state")) = 2

\* C5: the use_modulator calls return pairwise distinct slots, also for one
\* type, and each call adds one default instance of its type at its slot: the
\* Builder holds as many modulators as there were calls.
C5_ModulatorsNeverDeduplicated ==
    /\ \A i, j \in Calls("mod") : i # j => handles[i].slot # handles[j].slot
    /\ Len(builder.modulation_sources) = Cardinality(Calls("mod"))
    /\ builder.next_source_slot = Cardinality(Calls("mod"))
    /\ \A i \in Calls("mod") :
        /\ handles[i].slot < Len(builder.modulation_sources)
        /\ builder.modulation_sources[handles[i].slot + 1]
               = DefaultModulator(handles[i].ty)

\* three use_modulator calls, two of them for one type
C5_Witness ==
    /\ Cardinality(Calls("mod")) >= 3
    /\ \E i, j \in Calls("mod") : i # j /\ handles[i].ty = handles[j].ty

\* C6: all use_parameters calls for one type return the same slot and defer
\* one construction for the type, at that slot, whatever state and modulator
\* registrations come in between: the parameter slot counter counts the
\* distinct parameter types only.
C6_ParametersDeduplicated ==
    /\ \A i, j \in Calls("param") :
        handles[i].ty = handles[j].ty => handles[i].slot = handles[j].slot
    /\ builder.next_modulation_slot = Cardinality(TypesUsed("param"))
    /\ Len(builder.modulation_builders) = Cardinality(TypesUsed("param"))
    /\ \A i \in Calls("param") :
        /\ handles[i].slot < Len(builder.modulation_builders)
        /\ builder.modulation_builders[handles[i].slot + 1] = handles[i].ty

\* a parameter type was registered, then a state and a modulator, then the
\* same parameter type again
C6_Witness ==
    \E i, j \in Calls("param") :
        /\ handles[i].ty = handles[j].ty
        /\ \E k \in Calls("state") : i < k /\ k < j
        /\ \E k \in Calls("mod") : i < k /\ k < j

\* the handles issued before build was called
PreCalls(kind) == {i \in Calls(kind) : i <= preHandles}
FactoryOps(kind) == {k \in DOMAIN factory.ops : factory.ops[k].kind = kind}

\* C7: once build has returned, the factory has run exactly once (its
\* registrations are in the Runtime once), every handle issued before build or
\* by the factory has its materialized entry, and the Runtime holds the
\* component the factory returned.
C7_BuildMaterializesAll ==
    phase = "built" =>
        /\ Len(handles) = preHandles + Len(factory.ops)
        /\ Len(rt.modulation_sources)
               = Cardinality(PreCalls("mod")) + Cardinality(FactoryOps("mod"))
        /\ Len(rt.states) = Cardinality(TypesUsed("state"))
        /\ Len(rt.modulation_targets) = Cardinality(TypesUsed("param"))
        /\ \A i \in DOMAIN handles :
            LET h == handles[i]
            IN CASE h.kind = "state" ->
                      /\ h.slot < Len(rt.states)
                      /\ rt.states[h.slot + 1] = DefaultState(h.ty)
                 [] h.kind = "param" ->
                      /\ h.slot < Len(rt.modulation_targets)
                      /\ rt.modulation_targets[h.slot + 1].ty = h.ty
                      /\ rt.modulation_targets[h.slot + 1].modulation
                             = [f \in Fields(h.ty) |-> None]
                 [] h.kind = "mod" ->
                      /\ h.slot < Len(rt.modulation_sources)
                      /\ rt.modulation_sources[h.slot + 1] = DefaultModulator(h.ty)
        /\ rt.component = factory.component

\* build has returned a Runtime whose factory registered a state, a parameter
\* set or a modulator that was not registered before build
C7_Witness ==
    /\ phase = "built"
    /\ preHandles >= 1
    /\ \E i \in DOMAIN handles :
        /\ i > preHandles
        /\ \A j \in 1..preHandles : handles[j] # handles[i]
        /\ handles[i].kind = "param"
    /\ \E i \in Calls("mod") : i > preHandles
    /\ rt.component = "c2"

\* the parameter runtime at slot s - 1
Target(s) == rt.modulation_targets[s]
\* get_parameters of slot s - 1 was the last operation on the Runtime
JustFetched(s) == lastOp.op = "get_parameters" /\ lastOp.slot = s - 1

\* base + get_value(i) * amount for a routing, base alone without one
Modulated(base, routing, i) ==
    IF routing.some
    THEN FAdd(base, FMul(get_value(rt.modulation_sources[routing.source_index + 1], i),
                         routing.amount))
    ELSE base

InUnitRange(v) == v # NaN /\ 0 <= v /\ v <= 1

\* C8: each field holds the routing of the latest route call that named it
\* (none if no call did), and the values get_parameters resolves are those of
\* that latest routing alone.
C8_LastRouteWins ==
    \A s \in DOMAIN rt.modulation_targets :
        /\ \A f \in Fields(Target(s).ty) : Target(s).modulation[f] = lastRoute[s][f]
        /\ JustFetched(s) =>
            \A i \in 0..(BUFFER_SIZE - 1), f \in Fields(Target(s).ty) :
                Target(s).computed_values[i][f]
                    = Clamp01(Modulated(Target(s).base[f], lastRoute[s][f], i))

\* a field was routed, then routed again to the other modulator with the other
\* amount, and the values resolved follow the second routing: the first would
\* have given 1 at the last sample, not 0
C8_Witness ==
    \E s \in DOMAIN rt.modulation_targets :
        /\ JustFetched(s)
        /\ Target(s).ty = "P2"
        /\ rerouted[s]["gain"]
        /\ lastRoute[s]["gain"] = Some(1, -1)
        /\ rt.modulation_sources[1].table = "ramp"
        /\ rt.modulation_sources[2].table = "ramp"
        /\ Target(s).computed_values[BUFFER_SIZE - 1]["gain"] = 0

\* C9 as claimed: after get_parameters, every field at every sample index is
\* clamp(base + get_value(i) * amount, 0, 1) under its routing and clamp(base,
\* 0, 1) without one, and so lies in [0, 1].
C9_ResolvedInUnitRange ==
    \A s \in DOMAIN rt.modulation_targets :
        JustFetched(s) =>
            \A i \in 0..(BUFFER_SIZE - 1), f \in Fields(Target(s).ty) :
                LET raw == Modulated(Target(s).base[f], Target(s).modulation[f], i)
                    v == Target(s).computed_values[i][f]
                IN v = Clamp01(raw) /\ InUnitRange(v)

\* C9 as amended: after get_parameters, every field at every sample index is
\* clamp(base + get_value(i) * amount, 0, 1) under its routing and clamp(base,
\* 0, 1) without one; it lies in [0, 1] unless the sum is NaN, which clamp
\* returns unchanged.
C9_ResolvedClampOrNaN ==
    \A s \in DOMAIN rt.modulation_targets :
        JustFetched(s) =>
            \A i \in 0..(BUFFER_SIZE - 1), f \in Fields(Target(s).ty) :
                LET raw == Modulated(Target(s).base[f], Target(s).modulation[f], i)
                    v == Target(s).computed_values[i][f]
                IN /\ v = Clamp01(raw)
                   /\ raw # NaN => InUnitRange(v)
                   /\ raw = NaN => v = NaN

\* one field is routed to a ramp with amount 1 and resolves to 0 at sample 0
\* and is clamped to 1 from sample 1 on; the other field has no routing and
\* resolves to its base
C9_Witness ==
    \E s \in DOMAIN rt.modulation_targets :
        /\ JustFetched(s)
        /\ Target(s).ty = "P1"
        /\ Target(s).modulation["cutoff"] = Some(0, 1)
        /\ ~Target(s).modulation["resonance"].some
        /\ rt.modulation_sources[1].table = "ramp"
        /\ Target(s).computed_values[0]["cutoff"] = 0
        /\ Target(s).computed_values[1]["cutoff"] = 1
        /\ Target(s).computed_values[BUFFER_SIZE - 1]["cutoff"] = 1
        /\ Target(s).computed_values[BUFFER_SIZE - 1]["resonance"] = 0

\* C10: what a get_parameters call makes visible is the block computed from
\* the modulators and routings as they are at that call, also when an earlier
\* call of the same slot computed another block.
C10_RecomputedEachCall ==
    \A s \in DOMAIN rt.modulation_targets :
        JustFetched(s) =>
            Target(s).computed_values
                = update(Target(s), rt.modulation_sources).computed_values

\* a second get_parameters of a slot, inside a running component, returned a
\* block that differs from the one the call before it had computed
C10_Witness ==
    /\ lastOp.op = "get_parameters"
    /\ lastOp.changed
    /\ pc = "component"

\* C11: a route call whose field name is not a field of the target parameter
\* set installs no routing, raises no panic and leaves the whole Runtime as it
\* was, the existing routings included.
C11_UnknownFieldNoOp ==
    [][lastOp'.op = "route_unknown" => rt' = rt /\ ~panicked']_vars

\* a route call with an unknown field name has returned on a parameter set
\* that has a routing installed
C11_Witness ==
    /\ lastOp.op = "route_unknown"
    /\ \E f \in Fields(Target(lastOp.slot + 1).ty) :
        Target(lastOp.slot + 1).modulation[f].some
    /\ ~panicked

\* C12: a route call whose target slot has no parameter runtime behind it is
\* silently ignored: it raises no panic.
C12_MissingTargetIgnored ==
    (lastOp.op = "route" /\ ~InBounds(rt.modulation_targets, lastOp.slot))
        => ~panicked

\* C13: get, get_mut and get_source_mut called with a handle of another
\* Builder, or with a T that is not the slot's stored type, end in a panic and
\* return no reference.
C13_ForeignOrMismatchedAborts ==
    (/\ lastOp.op \in {"get", "get_mut", "get_source_mut"}
     /\ (lastOp.foreign \/ lastOp.mismatch))
        => (panicked /\ held = NoRef)

Lookups == {"get", "get_mut", "get_source_mut"}
Routes == {"route", "route_unknown"}

\* the resolved blocks of every parameter set
Blocks(r) == [n \in DOMAIN r.modulation_targets |-> r.modulation_targets[n].computed_values]

\* C14 (as stated): get, get_mut, get_source_mut and route all leave the state
\* slots, the modulators, the routing tables and the resolved blocks as they
\* were.
C14_AllButTickAndGetParametersPure ==
    [][lastOp'.op \in Lookups \cup Routes => rt' = rt]_vars

\* C14 (amended): get, get_mut and get_source_mut are lookups that leave the
\* whole Runtime as it was; route writes the routing table and leaves the
\* state slots, the modulators and the resolved blocks as they were.
C14_LookupsPureRouteWritesRouting ==
    [][/\ lastOp'.op \in Lookups => rt' = rt
       /\ lastOp'.op \in Routes =>
            /\ rt'.states = rt.states
            /\ rt'.modulation_sources = rt.modulation_sources
            /\ Blocks(rt') = Blocks(rt)]_vars

\* a lookup has returned a reference to a state object that was written
\* before, on a Runtime where route has installed a routing
C14_Witness ==
    /\ lastOp.op \in Lookups
    /\ held.vec = "states"
    /\ rt.states[held.slot + 1].val # 0
    /\ \E n \in DOMAIN rt.modulation_targets :
        \E f \in Fields(Target(n).ty) : Target(n).modulation[f].some

\* a component as a function of its input alone: what it writes into a fresh
\* buffer of n zeros
Alone(kind, x, n) == comp(kind, x, [i \in 1..n |-> 0])

\* cn(...c2(c1(x))...)
RECURSIVE Chained(_, _)
Chained(cs, x) ==
    IF cs = <<>> THEN x ELSE Chained(Tail(cs), Alone(Head(cs), x, Len(x)))

\* C15: a serial chain of n >= 1 components, called with input and output of
\* one length, leaves cn(...c1(input)) in output; it runs every stage once, in
\* order, stage k reading the buffer stage k-1 wrote, whether n is odd or
\* even; a single pass-through component gives back the input.
C15_SerialComposes ==
    (call.op = "serial" /\ Len(call.input) = Len(call.before)) =>
        LET n == Len(comb.components)
        IN /\ ~call.panic
           /\ n >= 1
           /\ call.output = Chained(comb.components, call.input)
           /\ Len(call.log) = n
           /\ \A k \in 1..n : call.log[k].comp = comb.components[k]
           /\ call.log[1].inp = call.input
           /\ \A k \in 2..n : call.log[k].inp = call.log[k - 1].wrote
           /\ call.output = call.log[n].wrote
           /\ (comb.components = <<"pass">> => call.output = call.input)

\* a chain of an even number of stages has run on a non-empty buffer and
\* changed the samples
C15_Witness ==
    /\ call.op = "serial"
    /\ ~call.panic
    /\ Len(comb.components) = 2
    /\ Len(call.input) >= 1
    /\ call.output # call.input
    /\ call.again

\* C16: a serial chain built from an empty component list exists and is the
\* identity: after any invocation output = input.
C16_EmptyChainIdentity ==
    /\ comb # Rejected("serial")
    /\ (call.op = "serial" /\ comb.components = <<>>) =>
            (~call.panic /\ call.output = call.input /\ call.log = <<>>)

\* sum over the branches of weight * (what the branch writes at sample i)
RECURSIVE Mixed(_, _, _, _)
Mixed(cs, x, n, i) ==
    IF cs = <<>> THEN 0
    ELSE Head(cs).weight * Alone(Head(cs).comp, x, n)[i] + Mixed(Tail(cs), x, n, i)

\* C17: a weighted mix leaves in every output sample i the sum over the
\* branches of weight * branch(input)[i], whatever output held before and with
\* no normalization; one identity branch gives w * x, two give (w1 + w2) * x.
C17_WeightedMix ==
    call.op = "parallel" =>
        /\ ~call.panic
        /\ Len(call.output) = Len(call.before)
        /\ \A i \in 1..Len(call.output) :
            /\ call.output[i] =
                Mixed(comb.components, call.input, Len(call.output), i)
            /\ (/\ i <= Len(call.input)
                /\ \A j \in 1..Len(comb.components) : comb.components[j].comp = "pass")
                => \/ /\ Len(comb.components) = 1
                      /\ call.output[i] = comb.components[1].weight * call.input[i]
                   \/ /\ Len(comb.components) = 2
                      /\ call.output[i] =
                            (comb.components[1].weight + comb.components[2].weight)
                                * call.input[i]
                   \/ Len(comb.components) > 2

\* two identity branches of weights 1 and 2 have been mixed into an output
\* buffer that held samples of an earlier block
C17_Witness ==
    /\ call.op = "parallel"
    /\ comb.components = <<[weight |-> 1, comp |-> "pass"], [weight |-> 2, comp |-> "pass"]>>
    /\ Len(call.input) >= 1
    /\ Len(call.before) = Len(call.input)
    /\ call.before[1] = 7
    /\ call.output[1] = 3 * call.input[1]

AllZero(buf) == \A i \in 1..Len(buf) : buf[i] = 0

\* C19: over any sequence of invocations of a chain or a mix, every component
\* is handed a destination buffer that is all zeros, every mix branch is handed
\* the caller's input, a component that writes nothing contributes silence, and
\* the output holds nothing of an earlier invocation: it is what the components
\* make of this input alone.
C19_NoStaleSamples ==
    (call.op \in {"serial", "parallel"} /\ ~call.panic) =>
        /\ \A k \in 1..Len(call.log) :
            /\ AllZero(call.log[k].dest)
            /\ Len(call.log[k].dest) = Len(call.before)
            /\ call.op = "parallel" => call.log[k].inp = call.input
            /\ call.log[k].comp = "silent" => AllZero(call.log[k].wrote)
        /\ call.op = "serial" =>
            call.output = Chained(comb.components, call.input)
        /\ call.op = "parallel" =>
            \A i \in 1..Len(call.output) :
                call.output[i] = Mixed(comb.components, call.input, Len(call.output), i)

\* a combinator with a component that writes nothing has been invoked again,
\* on an output buffer that held samples of an earlier block
C19_Witness ==
    /\ call.op \in {"serial", "parallel"}
    /\ ~call.panic
    /\ call.again
    /\ \E k \in 1..Len(call.log) : call.log[k].comp = "silent"
    /\ Len(call.before) >= 1
    /\ call.before[1] = 7
    /\ \/ call.op = "serial" /\ \E i \in 1..Len(comb.buffer_a) : comb.buffer_a[i] # 0
       \/ call.op = "parallel" /\ call.output[1] # 0

\* C18: reading the accessor at index j yields the resolved value at position
\* j mod 256, for every index j >= 0, and never faults.
C18_IndexWraps ==
    lastOp.op = "index" =>
        /\ ~lastOp.fault
        /\ ~panicked
        /\ \E k \in 0..(BUFFER_SIZE - 1), q \in 0..lastOp.index :
            /\ lastOp.index = q * BUFFER_SIZE + k
            /\ lastOp.value = Target(lastOp.slot + 1).computed_values[k]

\* the accessor over a block that is not constant has been read past the
\* block's end
C18_Witness ==
    /\ lastOp.op = "index"
    /\ lastOp.index = BUFFER_SIZE + 1
    /\ Target(lastOp.slot + 1).computed_values[0]
        # Target(lastOp.slot + 1).computed_values[1]
    /\ lastOp.value = Target(lastOp.slot + 1).computed_values[1]

\* the output callback has run its chunk loop to the end and returned
CallbackReturned == ~cb.active /\ cb # NoCallback

\* C20: for a hardware buffer of any length L the callback enters tick once
\* per consecutive chunk of 256 samples, in order, ceil(L / 256) times; every
\* tick gets an input chunk and an output chunk of one length (the last may be
\* shorter), and every output sample lies in the chunk of exactly one tick.
C20_OneTickPerChunk ==
    /\ \A k \in 1..Len(cb.ticks) :
        LET t == cb.ticks[k]
        IN /\ t.output.off = (k - 1) * 256
           /\ t.input.off = t.output.off
           /\ t.input.len = t.output.len
           /\ t.output.len >= 1
           /\ t.output.len <= 256
           /\ t.output.off + t.output.len <= cb.len
           /\ k < Len(cb.ticks) => t.output.len = 256
    /\ CallbackReturned =>
        /\ (Len(cb.ticks) - 1) * 256 < cb.len
        /\ cb.len <= Len(cb.ticks) * 256
        /\ cb.len > 0 =>
            LET last == cb.ticks[Len(cb.ticks)].output
            IN last.off + last.len = cb.len

\* a callback over a buffer that is no multiple of 256 has returned after
\* three ticks, the last on a shorter chunk
C20_Witness ==
    /\ CallbackReturned
    /\ Len(cb.ticks) = 3
    /\ cb.ticks[3].output.len < 256
    /\ cb.ticks[3].input.len = cb.ticks[3].output.len

SlotKinds == {"state", "param", "mod"}

\* the slots issued to the calls of one kind before call i
SlotsBefore(kind, i) == {handles[k].slot : k \in {j \in Calls(kind) : j < i}}

\* the Runtime's array of one kind
ArrayOf(kind) ==
    CASE kind = "state" -> rt.states
      [] kind = "param" -> rt.modulation_targets
      [] OTHER -> rt.modulation_sources

\* C21: after any registrations and build, the slots of each kind are numbered
\* 0..n-1 in the order the slots were first issued, distinct state types and
\* distinct parameter types have distinct slots, the Runtime's three arrays
\* have n entries each, every handle indexes in bounds, and each handle's slot
\* holds the entry made for the handle's type.
C21_SlotsDenseAndBacked ==
    /\ \A kind \in SlotKinds : \A i \in Calls(kind) :
        \/ handles[i].slot \in SlotsBefore(kind, i)
        \/ handles[i].slot = Cardinality(SlotsBefore(kind, i))
    /\ \A kind \in {"state", "param"} : \A i, j \in Calls(kind) :
        handles[i].ty # handles[j].ty => handles[i].slot # handles[j].slot
    /\ phase = "built" =>
        /\ \A kind \in SlotKinds :
            /\ Len(ArrayOf(kind)) = Cardinality({handles[i].slot : i \in Calls(kind)})
            /\ \A i \in Calls(kind) :
                /\ handles[i].slot < Len(ArrayOf(kind))
                /\ ArrayOf(kind)[handles[i].slot + 1].ty = handles[i].ty
        /\ \A i \in Calls("state") :
            /\ get(rt, handles[i]) = {Returns(rt, Ref("states", handles[i].slot, FALSE))}
            /\ get_mut(rt, handles[i]) = {Returns(rt, Ref("states", handles[i].slot, TRUE))}

\* build has returned a Runtime with two state slots, one of them registered
\* twice, and a slot of another kind
C21_Witness ==
    /\ phase = "built"
    /\ Len(rt.states) = 2
    /\ Cardinality(Calls("state")) = 3
    /\ Len(rt.modulation_targets) + Len(rt.modulation_sources) = 1
    /\ \E i \in Calls("state") : handles[i].slot = 1 /\ rt.states[2].ty = handles[i].ty

\* C22: with handles of the Builder that built the Runtime, the source index
\* of every installed routing is smaller than the number of modulators, and
\* no get_parameters call panics on a modulator index out of range.
C22_RoutingSourcesInRange ==
    /\ \A n \in DOMAIN rt.modulation_targets : \A f \in Fields(Target(n).ty) :
        Target(n).modulation[f].some =>
            Target(n).modulation[f].source_index < Len(rt.modulation_sources)
    /\ \A handle \in HandlesOf("param") : ~get_parameters_panics(rt, handle)
    /\ ~panicked

\* get_parameters has returned on a parameter set that is routed to the last
\* of two modulators
C22_Witness ==
    /\ lastOp.op = "get_parameters"
    /\ ~panicked
    /\ Len(rt.modulation_sources) = 2
    /\ \E f \in Fields(Target(lastOp.slot + 1).ty) :
        /\ Target(lastOp.slot + 1).modulation[f].some
        /\ Target(lastOp.slot + 1).modulation[f].source_index = 1

\* C23: a route call naming field f of parameter set P changes the routing
\* of f in P only: the routings of the other fields of P and of every other
\* parameter set, all base values, all state slots and all modulators stay as
\* they were.
C23_RouteTouchesOneField ==
    [][lastOp'.op \in Routes =>
        /\ rt'.states = rt.states
        /\ rt'.modulation_sources = rt.modulation_sources
        /\ rt'.component = rt.component
        /\ DOMAIN rt'.modulation_targets = DOMAIN rt.modulation_targets
        /\ \A n \in DOMAIN rt.modulation_targets :
            /\ rt'.modulation_targets[n].ty = rt.modulation_targets[n].ty
            /\ rt'.modulation_targets[n].base = rt.modulation_targets[n].base
            /\ rt'.modulation_targets[n].computed_values
                   = rt.modulation_targets[n].computed_values
            /\ \A f \in Fields(rt.modulation_targets[n].ty) :
                (n # lastOp'.slot + 1 \/ f # lastOp'.param) =>
                    rt'.modulation_targets[n].modulation[f]
                        = rt.modulation_targets[n].modulation[f]]_vars

\* route has installed a routing on one field of a two-field parameter set
\* whose other field is routed, on a Runtime whose other parameter set is
\* routed and whose state slot and modulator have been written
C23_Witness ==
    /\ lastOp.op = "route"
    /\ ~panicked
    /\ Len(rt.modulation_targets) = 2
    /\ Target(lastOp.slot + 1).ty = "P1"
    /\ \A f \in Fields("P1") : Target(lastOp.slot + 1).modulation[f].some
    /\ \E n \in DOMAIN rt.modulation_targets :
        n # lastOp.slot + 1 /\ \E f \in Fields(Target(n).ty) : Target(n).modulation[f].some
    /\ \E n \in DOMAIN rt.states : rt.states[n].val # 0
    /\ \E n \in DOMAIN rt.modulation_sources : rt.modulation_sources[n].table # "zero"

\* C24: tick never resets or rewrites a state slot or a routing table: a
\* state slot holds its type's default from build until it is first written,
\* then what was last written through get_mut, which is what get finds in
\* every later tick; an installed routing stays as the last route call for its
\* field left it, over any number of ticks.
C24_PersistsAcrossTicks ==
    /\ \A n \in DOMAIN rt.states :
        /\ ~stored.vals[n].written => rt.states[n] = DefaultState(rt.states[n].ty)
        /\ stored.vals[n].written => rt.states[n].val = stored.vals[n].val
    /\ (lastOp.op = "get" /\ ~panicked) =>
        /\ held = Ref("states", lastOp.slot, FALSE)
        /\ stored.vals[held.slot + 1].written =>
            rt.states[held.slot + 1].val = stored.vals[held.slot + 1].val
    /\ \A n \in DOMAIN rt.modulation_targets : \A f \in Fields(Target(n).ty) :
        Target(n).modulation[f] = lastRoute[n][f]

\* between two ticks get has returned the state slot: it holds the value
\* written before the last tick was entered, and the routing installed before
\* that tick is in force
C24_Witness ==
    /\ pc = "idle"
    /\ lastOp.op = "get"
    /\ held.vec = "states"
    /\ stored.vals[held.slot + 1].written
    /\ stored.vals[held.slot + 1].ticked
    /\ rt.states[held.slot + 1].val = 1
    /\ stored.routeTicked
    /\ \E n \in DOMAIN rt.modulation_targets : \E f \in Fields(Target(n).ty) :
        Target(n).modulation[f].some

====
